---- MODULE Spec2Model ----
(***************************************************************************)
(* Model of package maybe: the Option[T] and Nullable[T] containers, the   *)
(* driver-value encode path (Nullable.Value), the decode path              *)
(* (Nullable.Scan) and the null-aware JSON codec.                          *)
(*                                                                         *)
(* Integer widths are scaled so that every value can be enumerated: an     *)
(* 8-bit integer is modelled with BaseBits bits, a 16-bit one with         *)
(* BaseBits+1, a 32-bit one with BaseBits+2 and a 64-bit one (and int/uint *)
(* of a 64-bit platform) with BaseBits+3.  All comparisons between widths  *)
(* (math.MaxInt64 against a uint64, a destination's range against an int64)*)
(* keep their order under this scaling.  Floats are modelled as integers   *)
(* counted in float64 steps; a float32 holds the even ones only.           *)
(***************************************************************************)
EXTENDS Integers, Sequences, FiniteSets, TLC

VARIABLES T, n, o, last

vars == <<T, n, o, last>>

\* ---------------------------------------------------------------- bounds
BaseBits == 2
MaxLen == 2

\* The characters a byte sequence or a string is made of.
Chars == {"0", "1", "3", "-", "+", "a"}

SeqsUpTo(k) == UNION {[1..m -> Chars] : m \in 0..k}
Texts == SeqsUpTo(MaxLen)

\* ------------------------------------------------------- element types
SignedKinds == {"int", "int8", "int16", "int32", "int64"}
UnsignedKinds == {"uint", "uint8", "uint16", "uint32", "uint64"}
FloatKinds == {"float32", "float64"}

\* The unnamed types the model instantiates T with.
BuiltinTypes == SignedKinds \cup UnsignedKinds \cup FloatKinds
                \cup {"string", "bool", "bytes", "time", "struct"}

\* Named types: MyX has underlying type X and no methods; Money implements
\* driver.Valuer (underlying uint64); Code implements sql.Scanner on its
\* pointer (underlying int8).
NamedTypes == {"MyInt32", "MyInt64", "MyUint16", "MyFloat64", "MyBool",
               "MyString", "Money", "Code"}

Types == BuiltinTypes \cup NamedTypes

\* The element types Equals is instantiated with: the above, a pointer type,
\* the interface type any, a map type and a func type.
EqualsTypes == Types \cup {"*int64", "any", "map", "func"}

\* reflect.Type.Kind of an element type.
Kind(t) ==
    CASE t = "MyInt32" -> "int32"
      [] t = "MyInt64" -> "int64"
      [] t = "MyUint16" -> "uint16"
      [] t = "MyFloat64" -> "float64"
      [] t = "MyBool" -> "bool"
      [] t = "MyString" -> "string"
      [] t = "Money" -> "uint64"
      [] t = "Code" -> "int8"
      [] t = "bytes" -> "slice"
      [] t = "time" -> "struct"
      [] t = "*int64" -> "ptr"
      [] t = "any" -> "interface"
      [] OTHER -> t

\* any(n.value).(driver.Valuer) succeeds.
HasValuer(t) == t = "Money"

\* any(&n.value).(sql.Scanner) succeeds.
HasScanner(t) == t = "Code"

\* Width in (scaled) bits of an integer kind; int and uint are 64-bit.
Bits(k) ==
    CASE k \in {"int8", "uint8"} -> BaseBits
      [] k \in {"int16", "uint16"} -> BaseBits + 1
      [] k \in {"int32", "uint32"} -> BaseBits + 2
      [] OTHER -> BaseBits + 3

MinInt(k) == -(2 ^ (Bits(k) - 1))
MaxInt(k) == 2 ^ (Bits(k) - 1) - 1
MaxUint(k) == 2 ^ Bits(k) - 1

MaxInt64 == MaxInt("int64")
MinInt64 == MinInt("int64")
MaxUint64 == MaxUint("uint64")

MaxFloat32 == 2 ^ BaseBits
MaxFloat64 == 2 ^ (BaseBits + 1)

Float64s == (-MaxFloat64)..MaxFloat64
Float32s == {f \in (-MaxFloat32)..MaxFloat32 : f % 2 = 0}

\* An `any` holding a value of dynamic type ty (driver.Value, Scan's source).
Dyn(ty, v) == [type |-> ty, val |-> v]

\* The untyped nil interface.
UntypedNil == [type |-> "nil", val |-> 0]

\* A []byte value: the nil slice, or a sequence of bytes.
NilBytes == [nil |-> TRUE, data |-> <<>>]
Bytes(s) == [nil |-> FALSE, data |-> s]
ByteSlices == {NilBytes} \cup {Bytes(s) : s \in Texts}

\* The int64 variables a *int64 can point to: Heap[a] is the value stored at
\* address a. Two of them hold the same value.
Heap == <<0, 0, 1>>
Addrs == DOMAIN Heap

\* The nil *int64.
NilAddr == 0

\* The values of the interface type any: the nil interface, or a value of a
\* comparable (int64, *int64) or non-comparable ([]byte) dynamic type.
AnyValues ==
    {UntypedNil}
    \cup {Dyn("int64", v) : v \in 0..1}
    \cup {Dyn("*int64", a) : a \in Addrs}
    \cup {Dyn("bytes", b) : b \in {NilBytes, Bytes(<<>>)}}

\* The values of an element type. A map or func element is nil (0) or not (1).
Values(t) ==
    LET k == Kind(t) IN
    CASE k \in SignedKinds -> MinInt(k)..MaxInt(k)
      [] k \in UnsignedKinds -> 0..MaxUint(k)
      [] k = "float64" -> Float64s
      [] k = "float32" -> Float32s
      [] k = "string" -> Texts
      [] k = "bool" -> BOOLEAN
      [] k = "slice" -> ByteSlices
      [] k = "ptr" -> {NilAddr} \cup Addrs
      [] k = "interface" -> AnyValues
      [] OTHER -> 0..1

\* var zero T
Zero(t) ==
    LET k == Kind(t) IN
    CASE k = "string" -> <<>>
      [] k = "bool" -> FALSE
      [] k = "slice" -> NilBytes
      [] k = "interface" -> UntypedNil
      [] OTHER -> 0

\* -------------------------------------------------------- dynamic values
\* Equality of two dynamic values: same dynamic type and same value.
DynEq(a, b) == a.type = b.type /\ a.val = b.val

NoErr == "nil"

\* The types of the driver's vocabulary, matched by Value's type switch.
NativeTypes == {"int64", "float64", "bool", "bytes", "string", "time"}

\* ------------------------------------------------------------ containers
\* Nullable[T]{value, valid}
Nullable(v, valid) == [value |-> v, valid |-> valid]

\* Faulty variant: the value is stored and the flag left at its zero value.
NullableOf_NoFlag(v) == Nullable(v, FALSE)

\* func NullableOf[T any](value T) Nullable[T]
NullableOf(v) == Nullable(v, TRUE)

Null(t) == Nullable(Zero(t), FALSE)

\* A *T: nil, or the address of a variable holding v.
NilPtr == [nil |-> TRUE, elem |-> 0]
PtrTo(v) == [nil |-> FALSE, elem |-> v]
Ptrs(t) == {NilPtr} \cup {PtrTo(v) : v \in Values(t)}

NullableFromPtr(t, p) == IF p.nil THEN Null(t) ELSE NullableOf(p.elem)

\* A (T, bool) result pair.
Pair(v, ok) == [value |-> v, ok |-> ok]

\* func (n Nullable[T]) IsNull() bool
IsNull(c) == ~c.valid

\* func (n Nullable[T]) IsValid() bool
IsValid(c) == c.valid

\* func (n Nullable[T]) Extract() (T, bool)
Extract(c) == Pair(c.value, c.valid)

\* A pointer result and the variable it addresses.
PtrRet(p, at) == [ptr |-> p, at |-> at]

\* The variables of a call: the caller's container, the copy of it a method
\* with a value receiver works on, and a variable of the caller's own.
Container == "container"
ReceiverCopy == "receiver copy"
CallerVariable == "caller variable"
Nowhere == "nowhere"

\* *p = w, for a pointer p that addresses `at`, seen from the container c:
\* the store changes the container's value only if p addresses it.
StoreAt(c, at, w) == IF at = Container THEN [c EXCEPT !.value = w] ELSE c

\* Faulty variant: a pointer receiver, so that &n.value addresses the
\* caller's container.
ToPtr_PointerReceiver(c) ==
    IF ~c.valid THEN PtrRet(NilPtr, Nowhere)
    ELSE PtrRet(PtrTo(c.value), Container)

\* func (n Nullable[T]) ToPtr() *T; n is the method's copy of the container.
ToPtr(c) ==
    IF ~c.valid THEN PtrRet(NilPtr, Nowhere)
    ELSE PtrRet(PtrTo(c.value), ReceiverCopy)

\* The dynamic types of reflect kind Ptr, Map, Chan, Slice or Func.
NilableTypes == {"ptr", "map", "chan", "bytes", "func"}

\* Faulty variant: only the untyped nil counts as nil.
IsNil_UntypedOnly(src) == src.type = "nil"

\* func IsNil(i any) bool
IsNil(src) ==
    \/ src.type = "nil"
    \/ src.type \in NilableTypes /\ src.val.nil

\* ------------------------------------------------------------- helpers
\* func IsZero[T comparable](v T) bool
IsZero(t, v) == v = Zero(t)

\* The loop of FirstNonZero over vals[i..].
RECURSIVE FirstNonZeroFrom(_, _, _)
FirstNonZeroFrom(t, vals, i) ==
    IF i > Len(vals) THEN Pair(Zero(t), FALSE)
    ELSE IF IsZero(t, vals[i]) THEN Pair(vals[i], TRUE)
    ELSE FirstNonZeroFrom(t, vals, i + 1)

\* func FirstNonZero[T comparable](vals ...T) (T, bool)
FirstNonZero(t, vals) == FirstNonZeroFrom(t, vals, 1)

\* ------------------------------------------------------ Nullable.Equals
\* reflect.TypeOf(n.value): the dynamic type of the value boxed in an `any`.
\* An interface-typed element is unboxed first, and a nil interface has no
\* type at all.
NoType == "no type"
TypeOf(t, v) == IF Kind(t) = "interface"
                THEN (IF v.type = "nil" THEN NoType ELSE v.type)
                ELSE t

\* reflect.Type.Comparable
Comparable(ty) == Kind(ty) \notin {"slice", "map", "func"}

\* reflect.DeepEqual of two values of one concrete type: pointers are deeply
\* equal when they are equal or point to deeply equal values; slices when
\* both are nil or both are not and hold equal elements; funcs when both are
\* nil; maps when both are nil or both are not and hold equal entries (the
\* one non-nil map of the model is a single object).
DeepEqualValue(ty, a, b) ==
    LET k == Kind(ty) IN
    CASE k = "ptr" -> \/ a = b
                      \/ a # NilAddr /\ b # NilAddr /\ Heap[a] = Heap[b]
      [] k = "slice" -> a.nil = b.nil /\ a.data = b.data
      [] k = "func" -> a = 0 /\ b = 0
      [] OTHER -> a = b

\* reflect.DeepEqual(n.value, other.value), both boxed from element type t.
DeepEqual(t, a, b) ==
    IF Kind(t) = "interface"
    THEN /\ a.type = b.type
         /\ a.type = "nil" \/ DeepEqualValue(a.type, a.val, b.val)
    ELSE DeepEqualValue(t, a, b)

EqualsRet(out, panicked) == [out |-> out, panicked |-> panicked]

\* func (n Nullable[T]) Equals(other Nullable[T]) bool
\* Calling Comparable on the nil reflect.Type is a nil dereference.
Equals(t, c, other) ==
    IF c.valid # other.valid THEN EqualsRet(FALSE, FALSE)
    ELSE IF ~c.valid THEN EqualsRet(TRUE, FALSE)
    ELSE IF TypeOf(t, c.value) = NoType THEN EqualsRet(FALSE, TRUE)
    ELSE IF ~Comparable(TypeOf(t, c.value)) THEN EqualsRet(FALSE, FALSE)
    ELSE EqualsRet(DeepEqual(t, c.value, other.value), FALSE)

\* ------------------------------------------------- encode: Nullable.Value
ValueRet(out, err) == [out |-> out, err |-> err]

\* int64(unsignedVal): the two's-complement reinterpretation of a uint64.
Int64OfUint(u) == IF u > MaxInt64 THEN u - 2 ^ Bits("uint64") ELSE u

\* Faulty variant: the conversion without its overflow test.
UnsignedValue_NoCheck(u) == ValueRet(Dyn("int64", Int64OfUint(u)), NoErr)

\* case reflect.Uint, ..., reflect.Uint64
UnsignedValue(u) ==
    IF u > MaxInt64
    THEN ValueRet(UntypedNil, "unsigned_overflow")
    ELSE ValueRet(Dyn("int64", Int64OfUint(u)), NoErr)

\* Faulty variant: the kind switch also widens a 64-bit signed kind.
KindValue_WidensInt64(t, v) ==
    LET k == Kind(t) IN
    CASE k \in SignedKinds -> ValueRet(Dyn("int64", v), NoErr)
      [] k \in UnsignedKinds -> UnsignedValue(v)
      [] k = "float32" -> ValueRet(Dyn("float64", v), NoErr)
      [] OTHER -> ValueRet(UntypedNil, "unsupported_type")

\* switch rv.Kind() and the fallback error.
KindValue(t, v) ==
    LET k == Kind(t) IN
    CASE k \in {"int", "int8", "int16", "int32"} -> ValueRet(Dyn("int64", v), NoErr)
      [] k \in UnsignedKinds -> UnsignedValue(v)
      [] k = "float32" -> ValueRet(Dyn("float64", v), NoErr)
      [] OTHER -> ValueRet(UntypedNil, "unsupported_type")

\* What an element's own Value method may return: any driver value or error.
ValuerResults ==
    {ValueRet(Dyn("string", <<"a">>), NoErr),
     ValueRet(Dyn("int64", -1), NoErr),
     ValueRet(Dyn("int64", MaxInt64), NoErr),
     ValueRet(UntypedNil, NoErr),
     ValueRet(UntypedNil, "hook")}

NoValuer == ValueRet(UntypedNil, NoErr)

\* The results the hook of element type t can give (one dummy without hook).
ValuerChoices(t) == IF HasValuer(t) THEN ValuerResults ELSE {NoValuer}

\* Faulty variant: an invalid container goes through the dispatch like a valid one.
Value_NoNullCase(t, c, hk) ==
    IF HasValuer(t) THEN hk
    ELSE IF t \in NativeTypes THEN ValueRet(Dyn(t, c.value), NoErr)
    ELSE KindValue(t, c.value)

\* Faulty variant: the element's own Value method is not consulted.
Value_NoHook(t, c, hk) ==
    IF ~c.valid THEN ValueRet(UntypedNil, NoErr)
    ELSE IF t \in NativeTypes THEN ValueRet(Dyn(t, c.value), NoErr)
    ELSE KindValue(t, c.value)

\* func (n Nullable[T]) Value() (driver.Value, error); hk is what the
\* element's own Value method returns when T has one.
Value(t, c, hk) ==
    IF ~c.valid THEN ValueRet(UntypedNil, NoErr)
    ELSE IF HasValuer(t) THEN hk
    ELSE IF t \in NativeTypes THEN ValueRet(Dyn(t, c.value), NoErr)
    ELSE KindValue(t, c.value)

\* ---------------------------------------------------------- strconv
AllDigits == <<"0", "1", "2", "3", "4", "5", "6", "7", "8", "9">>
DigitVal(ch) == (CHOOSE i \in 1..10 : AllDigits[i] = ch) - 1
IsDigit(ch) == \E i \in 1..10 : AllDigits[i] = ch

RECURSIVE DecimalValue(_)
DecimalValue(s) ==
    IF s = <<>> THEN 0
    ELSE DecimalValue(SubSeq(s, 1, Len(s) - 1)) * 10 + DigitVal(s[Len(s)])

\* The sign and the digits of a decimal text; ok is false on a syntax error.
SignedDecimal(s) ==
    LET signed == s # <<>> /\ s[1] \in {"+", "-"}
        body == IF signed THEN Tail(s) ELSE s
        ok == body # <<>> /\ \A i \in 1..Len(body) : IsDigit(body[i])
    IN [ok |-> ok,
        neg |-> signed /\ s[1] = "-",
        mag |-> IF ok THEN DecimalValue(body) ELSE 0]

\* strconv.ParseInt(string(v), 10, 64)
ParseInt(s) ==
    LET d == SignedDecimal(s)
        v == IF d.neg THEN -d.mag ELSE d.mag
    IN IF ~d.ok THEN [err |-> "parse_int_syntax", val |-> 0]
       ELSE IF v > MaxInt64 THEN [err |-> "parse_int_range", val |-> MaxInt64]
       ELSE IF v < MinInt64 THEN [err |-> "parse_int_range", val |-> MinInt64]
       ELSE [err |-> NoErr, val |-> v]

\* strconv.ParseFloat(string(v), 64), on texts without fraction or exponent
ParseFloat(s) ==
    LET d == SignedDecimal(s)
        v == IF d.neg THEN -d.mag ELSE d.mag
    IN IF ~d.ok THEN [err |-> "parse_float_syntax", val |-> 0]
       ELSE IF v > MaxFloat64 \/ v < -MaxFloat64
            THEN [err |-> "parse_float_range", val |-> 0]
       ELSE [err |-> NoErr, val |-> v]

\* --------------------------------------------------- decode: Nullable.Scan
ScanRet(c, err, panicked) == [c |-> c, err |-> err, panicked |-> panicked]

\* switch v := value.(type) of the integer family: the int64 Scan works on.
IntegerSource(src) ==
    CASE src.type = "int64" -> [err |-> NoErr, val |-> src.val]
      [] src.type = "bytes" ->
            LET p == ParseInt(src.val.data) IN
            [err |-> IF p.err = NoErr THEN NoErr ELSE "parse_int", val |-> p.val]
      [] OTHER -> [err |-> "unsupported_source_int", val |-> 0]

\* reflect.Zero(destType).Int()
ReflectZeroInt(t) == Zero(t)

\* reflect.New(destType).Elem().Int(): the element a fresh *T points to.
ReflectNewElemInt(t) == Zero(t)

\* reflect.Value.OverflowUint(x) of a value of unsigned kind k.
OverflowUint(k, x) == x > MaxUint(k)

\* Faulty variant: no range test at all before the conversion.
IntegerRangeErr_None(t, intVal) == NoErr

\* The overflow checks of the integer family, as written.
IntegerRangeErr(t, intVal) ==
    IF Kind(t) \in SignedKinds
    THEN IF intVal < ReflectZeroInt(t) \/ intVal > ReflectNewElemInt(t)
         THEN "overflow_signed" ELSE NoErr
    ELSE IF intVal < 0 THEN "negative_unsigned"
         ELSE IF OverflowUint(Kind(t), MaxUint64) THEN "overflow_unsigned"
         ELSE NoErr

\* reflect.Value.Convert between integer kinds: the value modulo the width.
ConvertInt(i, k) ==
    LET m == 2 ^ Bits(k)
        r == i % m
    IN IF k \in SignedKinds /\ r > MaxInt(k) THEN r - m ELSE r

\* sourceVal.Convert(destType) is defined for an integer source only; for a
\* byte-sequence source reflect panics.
ConvertibleToInt(src) == src.type = "int64"

\* case reflect.Int ... reflect.Uint64
ScanInteger(t, c, src) ==
    LET got == IntegerSource(src)
        rng == IntegerRangeErr(t, got.val)
    IN IF got.err # NoErr THEN ScanRet(c, got.err, FALSE)
       ELSE IF rng # NoErr THEN ScanRet(c, rng, FALSE)
       ELSE IF ~ConvertibleToInt(src) THEN ScanRet(c, NoErr, TRUE)
       ELSE ScanRet(NullableOf(ConvertInt(src.val, Kind(t))), NoErr, FALSE)

\* Faulty variant: a string source is taken like a byte sequence.
ScanString_AcceptsString(t, c, src) ==
    IF src.type = "bytes" THEN ScanRet(NullableOf(src.val.data), NoErr, FALSE)
    ELSE IF src.type = "string" THEN ScanRet(NullableOf(src.val), NoErr, FALSE)
    ELSE ScanRet(c, "unsupported_source_string", FALSE)

\* case reflect.String
ScanString(t, c, src) ==
    IF src.type = "bytes"
    THEN ScanRet(NullableOf(src.val.data), NoErr, FALSE)
    ELSE ScanRet(c, "unsupported_source_string", FALSE)

\* float32(f): rounding a float64 to the nearest float32, ties to even.
ToFloat32(f) ==
    IF f % 2 = 0 THEN f ELSE IF (f + 1) % 4 = 0 THEN f + 1 ELSE f - 1

\* switch v := value.(type) of the float family.
FloatSource(src) ==
    CASE src.type = "float64" -> [err |-> NoErr, val |-> src.val]
      [] src.type = "bytes" ->
            LET p == ParseFloat(src.val.data) IN
            [err |-> IF p.err = NoErr THEN NoErr ELSE "parse_float", val |-> p.val]
      [] OTHER -> [err |-> "unsupported_source_float", val |-> 0]

\* case reflect.Float32, reflect.Float64
\* Faulty variant: the value is stored before the float32 range is checked.
ScanFloat_StoresFirst(t, c, src) ==
    LET got == FloatSource(src) IN
    IF got.err # NoErr THEN ScanRet(c, got.err, FALSE)
    ELSE IF Kind(t) = "float32"
            /\ (got.val < -MaxFloat32 \/ got.val > MaxFloat32)
         THEN ScanRet(Nullable(got.val, c.valid), "overflow_float32", FALSE)
    ELSE ScanRet(NullableOf(IF Kind(t) = "float32" THEN ToFloat32(got.val)
                                                   ELSE got.val), NoErr, FALSE)

ScanFloat(t, c, src) ==
    LET got == FloatSource(src) IN
    IF got.err # NoErr THEN ScanRet(c, got.err, FALSE)
    ELSE IF Kind(t) = "float32"
            /\ (got.val < -MaxFloat32 \/ got.val > MaxFloat32)
         THEN ScanRet(c, "overflow_float32", FALSE)
    ELSE ScanRet(NullableOf(IF Kind(t) = "float32" THEN ToFloat32(got.val)
                                                   ELSE got.val), NoErr, FALSE)

\* What the element's own Scan method may do with &n.value: store any value
\* of T, and return nil or an error.
ScannerResults(t) == [write : Values(t), err : {NoErr, "hook"}]

NoScanner == [write |-> 0, err |-> NoErr]

ScannerChoices(t) == IF HasScanner(t) THEN ScannerResults(t) ELSE {NoScanner}

\* if scanner, ok := any(&n.value).(sql.Scanner); ok { ... }
ScanHook(c, hk) ==
    IF hk.err # NoErr
    THEN ScanRet(Nullable(hk.write, c.valid), hk.err, FALSE)
    ELSE ScanRet(Nullable(hk.write, TRUE), NoErr, FALSE)

\* switch destType.Kind()
ScanByKind(t, c, src) ==
    LET k == Kind(t) IN
    CASE k \in SignedKinds \cup UnsignedKinds -> ScanInteger(t, c, src)
      [] k = "string" -> ScanString(t, c, src)
      [] k \in FloatKinds -> ScanFloat(t, c, src)
      [] OTHER -> ScanRet(c, "unsupported_type", FALSE)

\* Faulty variant: the exact-type store comes before the decode hook.
Scan_FastPathFirst(t, c, src, hk) ==
    IF IsNil(src) THEN ScanRet(Null(t), NoErr, FALSE)
    ELSE IF src.type = t THEN ScanRet(NullableOf(src.val), NoErr, FALSE)
    ELSE IF HasScanner(t) THEN ScanHook(c, hk)
    ELSE ScanByKind(t, c, src)

\* Faulty variant: a NULL source clears the flag and keeps the value.
Scan_NilKeepsValue(t, c, src, hk) ==
    IF IsNil(src) THEN ScanRet(Nullable(c.value, FALSE), NoErr, FALSE)
    ELSE IF HasScanner(t) THEN ScanHook(c, hk)
    ELSE IF src.type = t THEN ScanRet(NullableOf(src.val), NoErr, FALSE)
    ELSE ScanByKind(t, c, src)

\* func (n *Nullable[T]) Scan(value any) error
Scan(t, c, src, hk) ==
    IF IsNil(src) THEN ScanRet(Null(t), NoErr, FALSE)
    ELSE IF HasScanner(t) THEN ScanHook(c, hk)
    ELSE IF src.type = t THEN ScanRet(NullableOf(src.val), NoErr, FALSE)
    ELSE ScanByKind(t, c, src)

\* The sources a driver (or a caller) hands to Scan.
Sources ==
    {UntypedNil}
    \cup {Dyn(ty, NilPtr) : ty \in {"ptr", "map", "chan", "func"}}
    \cup {Dyn("map", PtrTo(0))}
    \cup {Dyn("Code", v) : v \in Values("Code")}
    \cup {Dyn("int64", i) : i \in MinInt64..MaxInt64}
    \cup {Dyn("float64", f) : f \in Float64s}
    \cup {Dyn("bool", b) : b \in BOOLEAN}
    \cup {Dyn("string", s) : s \in Texts}
    \cup {Dyn("bytes", b) : b \in ByteSlices}
    \cup {Dyn("time", x) : x \in 0..1}
    \cup {Dyn("int32", i) : i \in MinInt("int32")..MaxInt("int32")}

\* ------------------------------------------------------- encoding/json
Quote == "\""

\* The data without its leading and trailing blanks.
RECURSIVE TrimLeft(_)
TrimLeft(s) == IF s # <<>> /\ s[1] = " " THEN TrimLeft(Tail(s)) ELSE s

RECURSIVE TrimRight(_)
TrimRight(s) ==
    IF s # <<>> /\ s[Len(s)] = " "
    THEN TrimRight(SubSeq(s, 1, Len(s) - 1)) ELSE s

Trim(s) == TrimRight(TrimLeft(s))

JSONNull == <<"n", "u", "l", "l">>
JSONTrue == <<"t", "r", "u", "e">>
JSONFalse == <<"f", "a", "l", "s", "e">>
JSONEmptyObject == <<"{", "}">>

\* -?(0|[1-9][0-9]*): a JSON number without fraction or exponent.
IsJSONInteger(s) ==
    LET body == IF s # <<>> /\ s[1] = "-" THEN Tail(s) ELSE s IN
    /\ body # <<>>
    /\ \A i \in 1..Len(body) : IsDigit(body[i])
    /\ (Len(body) > 1 => body[1] # "0")

\* "...": a JSON string without escapes.
IsJSONString(s) ==
    /\ Len(s) >= 2
    /\ s[1] = Quote /\ s[Len(s)] = Quote
    /\ \A i \in 2..(Len(s) - 1) : s[i] \notin {Quote, "\\"}

\* The kind of JSON value the data holds; "invalid" fails json's checkValid.
JSONKind(data) ==
    LET s == Trim(data) IN
    CASE s = JSONNull -> "null"
      [] s \in {JSONTrue, JSONFalse} -> "bool"
      [] s = JSONEmptyObject -> "object"
      [] IsJSONInteger(s) -> "number"
      [] IsJSONString(s) -> "string"
      [] OTHER -> "invalid"

JSONOk(v) == [err |-> NoErr, val |-> v]
JSONErr(e, t) == [err |-> e, val |-> Zero(t)]

\* A JSON number decoded into an element of type t.
JSONNumberInto(t, s) ==
    LET k == Kind(t)
        d == SignedDecimal(s)
        v == IF d.neg THEN -d.mag ELSE d.mag
    IN CASE t = "time" -> JSONErr("json_time", t)
         [] k \in SignedKinds ->
              IF v < MinInt(k) \/ v > MaxInt(k) THEN JSONErr("json_type", t)
              ELSE JSONOk(v)
         [] k \in UnsignedKinds ->
              IF d.neg \/ v > MaxUint(k) THEN JSONErr("json_type", t)
              ELSE JSONOk(v)
         [] k = "float64" ->
              IF v < -MaxFloat64 \/ v > MaxFloat64 THEN JSONErr("json_type", t)
              ELSE JSONOk(v)
         [] k = "float32" ->
              IF v < -MaxFloat32 \/ v > MaxFloat32 THEN JSONErr("json_type", t)
              ELSE JSONOk(ToFloat32(v))
         [] OTHER -> JSONErr("json_type", t)

\* The ASCII code of a character of the texts.
Ascii(ch) ==
    CASE ch = "0" -> 48 [] ch = "1" -> 49 [] ch = "3" -> 51
      [] ch = "-" -> 45 [] ch = "+" -> 43 [] ch = "a" -> 97

Base64Alphabet ==
    <<"A", "B", "C", "D", "E", "F", "G", "H", "I", "J", "K", "L", "M", "N", "O", "P",
      "Q", "R", "S", "T", "U", "V", "W", "X", "Y", "Z", "a", "b", "c", "d", "e", "f",
      "g", "h", "i", "j", "k", "l", "m", "n", "o", "p", "q", "r", "s", "t", "u", "v",
      "w", "x", "y", "z", "0", "1", "2", "3", "4", "5", "6", "7", "8", "9", "+", "/">>

\* base64.StdEncoding of a byte sequence, as json encodes a []byte.
RECURSIVE Base64(_)
Base64(b) ==
    IF b = <<>> THEN <<>>
    ELSE LET has2 == Len(b) >= 2
             has3 == Len(b) >= 3
             w == Ascii(b[1]) * 65536
                  + (IF has2 THEN Ascii(b[2]) ELSE 0) * 256
                  + (IF has3 THEN Ascii(b[3]) ELSE 0)
         IN << Base64Alphabet[(w \div 262144) + 1],
               Base64Alphabet[((w \div 4096) % 64) + 1],
               IF has2 THEN Base64Alphabet[((w \div 64) % 64) + 1] ELSE "=",
               IF has3 THEN Base64Alphabet[(w % 64) + 1] ELSE "=" >>
            \o Base64(SubSeq(b, 4, Len(b)))

\* The RFC 3339 text of a time.Time; the text is kept as one unit.
RFC3339(x) ==
    IF x = 0 THEN <<"0001-01-01T00:00:00Z">> ELSE <<"0001-01-01T00:00:01Z">>

\* A JSON string decoded into an element of type t.  A []byte takes the
\* base64 text of a byte sequence, a time.Time an RFC 3339 text.
JSONStringInto(t, s) ==
    LET inner == SubSeq(s, 2, Len(s) - 1) IN
    CASE Kind(t) = "string" -> JSONOk(inner)
      [] t = "bytes" ->
           IF \E b \in Texts : Base64(b) = inner
           THEN JSONOk(Bytes(CHOOSE b \in Texts : Base64(b) = inner))
           ELSE JSONErr("json_base64", t)
      [] t = "time" ->
           IF \E x \in Values(t) : RFC3339(x) = inner
           THEN JSONOk(CHOOSE x \in Values(t) : RFC3339(x) = inner)
           ELSE JSONErr("json_time", t)
      [] OTHER -> JSONErr("json_type", t)

\* var v T; json.Unmarshal(data, &v): the error and the decoded v.
JSONUnmarshal(t, data) ==
    LET s == Trim(data)
        jk == JSONKind(data)
    IN CASE jk = "invalid" -> JSONErr("json_syntax", t)
         [] jk = "null" -> JSONOk(Zero(t))
         [] jk = "number" -> JSONNumberInto(t, s)
         [] jk = "string" -> JSONStringInto(t, s)
         [] jk = "bool" ->
              IF Kind(t) = "bool" THEN JSONOk(s = JSONTrue)
              ELSE JSONErr(IF t = "time" THEN "json_time" ELSE "json_type", t)
         [] OTHER ->
              IF t = "struct" THEN JSONOk(Zero(t))
              ELSE JSONErr(IF t = "time" THEN "json_time" ELSE "json_type", t)

\* The decimal text of a natural number.
RECURSIVE DecimalText(_)
DecimalText(x) ==
    IF x < 10 THEN <<AllDigits[x + 1]>>
    ELSE DecimalText(x \div 10) \o <<AllDigits[(x % 10) + 1]>>

\* Faulty variant: the sign of a negative number is lost.
JSONNumber_NoSign(x) == DecimalText(IF x < 0 THEN -x ELSE x)

\* json's encoding of an integer, and of a float without fraction.
JSONNumber(x) == IF x < 0 THEN <<"-">> \o DecimalText(-x) ELSE DecimalText(x)

\* json.Marshal(v) of a value of element type t.  The texts hold no
\* character json escapes; the struct has unexported fields only.
JSONMarshal(t, v) ==
    LET k == Kind(t) IN
    CASE t = "time" -> <<Quote>> \o RFC3339(v) \o <<Quote>>
      [] k \in SignedKinds \cup UnsignedKinds \cup FloatKinds -> JSONNumber(v)
      [] k = "string" -> <<Quote>> \o v \o <<Quote>>
      [] k = "bool" -> IF v THEN JSONTrue ELSE JSONFalse
      [] k = "slice" ->
           IF v.nil THEN JSONNull ELSE <<Quote>> \o Base64(v.data) \o <<Quote>>
      [] OTHER -> JSONEmptyObject

\* The data handed to UnmarshalJSON.
JSONInputs ==
    {JSONNull, <<" ">> \o JSONNull, JSONTrue, JSONFalse, JSONEmptyObject,
     <<"0">>, <<"1">>, <<"3">>, <<"-", "1">>, <<"-", "0">>, <<"1", "3">>,
     <<"3", "3">>, <<"0", "1">>, <<"+", "1">>, <<"a">>, <<>>,
     <<Quote, Quote>>, <<Quote, "a", Quote>>, <<Quote, "1", Quote>>}

\* The data for an element type: the inputs above and every document
\* json.Marshal produces for a value of the type.
UnmarshalInputs(t) == JSONInputs \cup {JSONMarshal(t, v) : v \in Values(t)}

UnmarshalRet(c, err) == [c |-> c, err |-> err]

\* Faulty variant: null clears the flag and leaves the value in place.
NullableUnmarshalJSON_NullKeepsValue(t, c, data) ==
    IF data = JSONNull THEN UnmarshalRet(Nullable(c.value, FALSE), NoErr)
    ELSE LET d == JSONUnmarshal(t, data) IN
         IF d.err # NoErr THEN UnmarshalRet(c, d.err)
         ELSE UnmarshalRet(Nullable(d.val, TRUE), NoErr)

\* Faulty variant: the document is decoded into n.value itself.
NullableUnmarshalJSON_InPlace(t, c, data) ==
    IF data = JSONNull THEN UnmarshalRet(Nullable(Zero(t), FALSE), NoErr)
    ELSE LET d == JSONUnmarshal(t, data) IN
         IF d.err # NoErr THEN UnmarshalRet(Nullable(d.val, c.valid), d.err)
         ELSE UnmarshalRet(Nullable(d.val, TRUE), NoErr)

\* func (n *Nullable[T]) UnmarshalJSON(data []byte) error
NullableUnmarshalJSON(t, c, data) ==
    IF data = JSONNull THEN UnmarshalRet(Nullable(Zero(t), FALSE), NoErr)
    ELSE LET d == JSONUnmarshal(t, data) IN
         IF d.err # NoErr THEN UnmarshalRet(c, d.err)
         ELSE UnmarshalRet(Nullable(d.val, TRUE), NoErr)

MarshalRet(out, err) == [out |-> out, err |-> err]

\* Faulty variant: the value is encoded whether the container is valid or not.
NullableMarshalJSON_IgnoresValid(t, c) == MarshalRet(JSONMarshal(t, c.value), NoErr)

\* func (n Nullable[T]) MarshalJSON() ([]byte, error)
NullableMarshalJSON(t, c) ==
    IF ~c.valid THEN MarshalRet(JSONNull, NoErr)
    ELSE MarshalRet(JSONMarshal(t, c.value), NoErr)

\* ---------------------------------------------------------------- Option
\* Option[T]{value, has}
Option(v, has) == [value |-> v, has |-> has]

Some(v) == Option(v, TRUE)

None(t) == Option(Zero(t), FALSE)

FromPtr(t, p) == IF p.nil THEN None(t) ELSE Some(p.elem)

\* func (o Option[T]) IsSome() bool
IsSome(c) == c.has

\* func (o Option[T]) IsNone() bool
IsNone(c) == ~c.has

\* func (o Option[T]) Value() (T, bool)
OptionValue(c) == Pair(c.value, c.has)

\* Faulty variant: nil is returned for a zero value instead of an absent one.
Ptr_NilForZero(t, c) ==
    IF c.value # Zero(t) THEN PtrRet(PtrTo(c.value), ReceiverCopy)
    ELSE PtrRet(NilPtr, Nowhere)

\* func (o Option[T]) Ptr() *T; o is the method's copy of the container.
Ptr(t, c) ==
    IF c.has THEN PtrRet(PtrTo(c.value), ReceiverCopy)
    ELSE PtrRet(NilPtr, Nowhere)

\* func (n Nullable[T]) ToOption() Option[T]
ToOption(t, c) == IF ~c.valid THEN None(t) ELSE Some(c.value)

\* Faulty variant: the value is stored and the flag left as it was.
Set_KeepsFlag(c, v) == Option(v, c.has)

\* func (o *Option[T]) Set(v T)
Set(c, v) ==
    LET has1 == IF ~c.has THEN TRUE ELSE c.has IN
    Option(v, has1)

\* Faulty variant: the flag is cleared and the value left in place.
Unset_KeepsValue(t, c) == Option(c.value, FALSE)

\* func (o *Option[T]) Unset()
Unset(t, c) ==
    LET has1 == IF c.has THEN FALSE ELSE c.has IN
    Option(Zero(t), has1)

\* func (o *Option[T]) UnmarshalJSON(data []byte) error
OptionUnmarshalJSON(t, c, data) ==
    IF data = JSONNull THEN UnmarshalRet(Option(Zero(t), FALSE), NoErr)
    ELSE LET d == JSONUnmarshal(t, data) IN
         IF d.err # NoErr THEN UnmarshalRet(c, d.err)
         ELSE UnmarshalRet(Option(d.val, TRUE), NoErr)

\* func (o Option[T]) MarshalJSON() ([]byte, error)
OptionMarshalJSON(t, c) ==
    IF ~c.has THEN MarshalRet(JSONNull, NoErr)
    ELSE MarshalRet(JSONMarshal(t, c.value), NoErr)

\* The callbacks handed to AndThen and AndThenOr: one that returns its
\* argument, one that returns None, one that returns Some of the zero value.
Fns == {"identity", "toNone", "toSomeZero"}

\* fn(arg)
Apply(f, t, arg) ==
    CASE f = "identity" -> arg
      [] f = "toNone" -> None(t)
      [] OTHER -> Some(Zero(t))

\* What a call returned and the arguments fn was invoked with, in order.
ChainRet(out, calls) == [out |-> out, calls |-> calls]

\* Faulty variant: fn is invoked without looking at the flag.
AndThen_AlwaysCalls(t, c, f) == ChainRet(Apply(f, t, c), <<c>>)

\* func (o Option[T]) AndThen(fn func(Option[T]) Option[T]) Option[T]
AndThen(t, c, f) ==
    IF ~c.has THEN ChainRet(None(t), <<>>)
    ELSE ChainRet(Apply(f, t, c), <<c>>)

\* func (o Option[T]) AndThenOr(defaultValue T, fn func(Option[T]) Option[T]) Option[T]
AndThenOr(t, c, defaultValue, f) ==
    IF ~c.has THEN ChainRet(Apply(f, t, Some(defaultValue)), <<Some(defaultValue)>>)
    ELSE ChainRet(Apply(f, t, c), <<c>>)

\* var ErrMissingValue = errors.New("expected a value, but none was present")
ErrMissingValue == "expected a value, but none was present"

UnwrapRet(out, err, panicked) == [out |-> out, err |-> err, panicked |-> panicked]

\* Faulty variant: the stored value is returned without looking at the flag.
Unwrap_NoCheck(t, c) == UnwrapRet(Dyn(t, c.value), NoErr, FALSE)

\* func (o Option[T]) Unwrap() T; panic(ErrMissingValue) when absent.
Unwrap(t, c) ==
    IF ~c.has THEN UnwrapRet(UntypedNil, ErrMissingValue, TRUE)
    ELSE UnwrapRet(Dyn(t, c.value), NoErr, FALSE)

\* ----------------------------------------------------------- state machine
\* What the last call was given and what it returned.
Call(op, in, pre, hook, out, err, panicked) ==
    [op |-> op, in |-> in, pre |-> pre, hook |-> hook,
     out |-> out, err |-> err, panicked |-> panicked]

NoHook == [err |-> NoErr]

\* No call is in progress and the result of the last one has been consumed.
Idle == Call("idle", UntypedNil, UntypedNil, NoHook, UntypedNil, NoErr, FALSE)

\* var n Nullable[T]; var o Option[T]
Init ==
    /\ T \in Types
    /\ n = Nullable(Zero(T), FALSE)
    /\ o = Option(Zero(T), FALSE)
    /\ last = Idle

\* n = Null[T]()
DoNull ==
    /\ last.op = "idle"
    /\ n' = Null(T)
    /\ last' = Call("Null", UntypedNil, UntypedNil, NoHook, UntypedNil, NoErr, FALSE)
    /\ UNCHANGED <<T, o>>

\* n = NullableOf(v)
DoNullableOf ==
    /\ last.op = "idle"
    /\ \E v \in Values(T) :
        /\ n' = NullableOf(v)
        /\ last' = Call("NullableOf", Dyn(T, v), UntypedNil, NoHook, UntypedNil, NoErr, FALSE)
        /\ UNCHANGED <<T, o>>

\* n = NullableFromPtr(p)
DoNullableFromPtr ==
    /\ last.op = "idle"
    /\ \E p \in Ptrs(T) :
        /\ n' = NullableFromPtr(T, p)
        /\ last' = Call("NullableFromPtr", Dyn("ptr", p), UntypedNil, NoHook, UntypedNil, NoErr, FALSE)
        /\ UNCHANGED <<T, o>>

\* n = Nullable[T]{}
DoZeroValue ==
    /\ last.op = "idle"
    /\ n' = Nullable(Zero(T), FALSE)
    /\ last' = Call("zero", UntypedNil, UntypedNil, NoHook, UntypedNil, NoErr, FALSE)
    /\ UNCHANGED <<T, o>>

\* err = n.UnmarshalJSON(data)
DoUnmarshalJSON ==
    /\ last.op = "idle"
    /\ \E data \in UnmarshalInputs(T) :
        LET r == NullableUnmarshalJSON(T, n, data) IN
        /\ n' = r.c
        /\ last' = Call("UnmarshalJSON", Dyn("bytes", Bytes(data)), n, NoHook,
                        UntypedNil, r.err, FALSE)
        /\ UNCHANGED <<T, o>>

\* err = n.Scan(src); a panic leaves n as it was.
DoScan ==
    /\ last.op = "idle"
    /\ \E src \in Sources, hk \in ScannerChoices(T) :
        LET r == Scan(T, n, src, hk) IN
        /\ n' = r.c
        /\ last' = Call("Scan", src, n, hk, UntypedNil, r.err, r.panicked)
        /\ UNCHANGED <<T, o>>

\* out, err = n.Value()
DoValue ==
    /\ last.op = "idle"
    /\ \E hk \in ValuerChoices(T) :
        LET r == Value(T, n, hk) IN
        /\ last' = Call("Value", UntypedNil, n, hk, r.out, r.err, FALSE)
        /\ UNCHANGED <<T, n, o>>

\* out, err = n.MarshalJSON()
DoMarshalJSON ==
    /\ last.op = "idle"
    /\ LET r == NullableMarshalJSON(T, n) IN
       last' = Call("MarshalJSON", UntypedNil, n, NoHook,
                    Dyn("bytes", Bytes(r.out)), r.err, FALSE)
    /\ UNCHANGED <<T, n, o>>

\* The caller consumes the result of the last call.
Return ==
    /\ last.op # "idle"
    /\ last' = Idle
    /\ UNCHANGED <<T, n, o>>

Next ==
    \/ DoNull
    \/ DoNullableOf
    \/ DoNullableFromPtr
    \/ DoZeroValue
    \/ DoUnmarshalJSON
    \/ DoScan
    \/ DoValue
    \/ DoMarshalJSON
    \/ Return

Spec == Init /\ [][Next]_vars

\* o = None[T]()
DoNone ==
    /\ last.op = "idle"
    /\ o' = None(T)
    /\ last' = Call("None", UntypedNil, UntypedNil, NoHook, UntypedNil, NoErr, FALSE)
    /\ UNCHANGED <<T, n>>

\* o = Some(v)
DoSome ==
    /\ last.op = "idle"
    /\ \E v \in Values(T) :
        /\ o' = Some(v)
        /\ last' = Call("Some", Dyn(T, v), UntypedNil, NoHook, UntypedNil, NoErr, FALSE)
        /\ UNCHANGED <<T, n>>

\* o = FromPtr(p)
DoFromPtr ==
    /\ last.op = "idle"
    /\ \E p \in Ptrs(T) :
        /\ o' = FromPtr(T, p)
        /\ last' = Call("FromPtr", Dyn("ptr", p), UntypedNil, NoHook, UntypedNil, NoErr, FALSE)
        /\ UNCHANGED <<T, n>>

\* o = Option[T]{}
DoOptionZeroValue ==
    /\ last.op = "idle"
    /\ o' = Option(Zero(T), FALSE)
    /\ last' = Call("Option.zero", UntypedNil, UntypedNil, NoHook, UntypedNil, NoErr, FALSE)
    /\ UNCHANGED <<T, n>>

\* o.Set(v)
DoSet ==
    /\ last.op = "idle"
    /\ \E v \in Values(T) :
        /\ o' = Set(o, v)
        /\ last' = Call("Set", Dyn(T, v), o, NoHook, UntypedNil, NoErr, FALSE)
        /\ UNCHANGED <<T, n>>

\* o.Unset()
DoUnset ==
    /\ last.op = "idle"
    /\ o' = Unset(T, o)
    /\ last' = Call("Unset", UntypedNil, o, NoHook, UntypedNil, NoErr, FALSE)
    /\ UNCHANGED <<T, n>>

\* err = o.UnmarshalJSON(data)
DoOptionUnmarshalJSON ==
    /\ last.op = "idle"
    /\ \E data \in UnmarshalInputs(T) :
        LET r == OptionUnmarshalJSON(T, o, data) IN
        /\ o' = r.c
        /\ last' = Call("Option.UnmarshalJSON", Dyn("bytes", Bytes(data)), o, NoHook,
                        UntypedNil, r.err, FALSE)
        /\ UNCHANGED <<T, n>>

\* out, err = o.MarshalJSON()
DoOptionMarshalJSON ==
    /\ last.op = "idle"
    /\ LET r == OptionMarshalJSON(T, o) IN
       last' = Call("Option.MarshalJSON", UntypedNil, o, NoHook,
                    Dyn("bytes", Bytes(r.out)), r.err, FALSE)
    /\ UNCHANGED <<T, n, o>>

\* v = o.Unwrap(); the receiver is a copy of o.
DoUnwrap ==
    /\ last.op = "idle"
    /\ LET r == Unwrap(T, o) IN
       last' = Call("Unwrap", UntypedNil, o, NoHook, r.out, r.err, r.panicked)
    /\ UNCHANGED <<T, n, o>>

\* out = o.AndThen(fn); the receiver is a copy of o.
DoAndThen ==
    /\ last.op = "idle"
    /\ \E f \in Fns :
        LET r == AndThen(T, o, f) IN
        last' = Call("AndThen", UntypedNil, o, [fn |-> f, calls |-> r.calls],
                     r.out, NoErr, FALSE)
    /\ UNCHANGED <<T, n, o>>

\* out = o.AndThenOr(defaultValue, fn)
DoAndThenOr ==
    /\ last.op = "idle"
    /\ \E f \in Fns, d \in Values(T) :
        LET r == AndThenOr(T, o, d, f) IN
        last' = Call("AndThenOr", Dyn(T, d), o, [fn |-> f, calls |-> r.calls],
                     r.out, NoErr, FALSE)
    /\ UNCHANGED <<T, n, o>>

NextOption ==
    \/ DoNone
    \/ DoSome
    \/ DoFromPtr
    \/ DoOptionZeroValue
    \/ DoSet
    \/ DoUnset
    \/ DoOptionUnmarshalJSON
    \/ DoOptionMarshalJSON
    \/ DoUnwrap
    \/ DoAndThen
    \/ DoAndThenOr
    \/ Return

OptionSpec == Init /\ [][NextOption]_vars

\* The Nullable (the Option) is as declared: no call has changed it, or calls
\* have brought it back to its zero value.
NullableDeclared == n = Nullable(Zero(T), FALSE)
OptionDeclared == o = Option(Zero(T), FALSE)

\* The JSON codec of both containers.  The two containers share no state, so
\* a behaviour works on one of them while the other stays as declared.
NextCodec ==
    \/ OptionDeclared /\ DoNull
    \/ OptionDeclared /\ DoNullableOf
    \/ OptionDeclared /\ DoUnmarshalJSON
    \/ OptionDeclared /\ DoMarshalJSON
    \/ NullableDeclared /\ DoNone
    \/ NullableDeclared /\ DoSome
    \/ NullableDeclared /\ DoOptionUnmarshalJSON
    \/ NullableDeclared /\ DoOptionMarshalJSON
    \/ Return

CodecSpec == Init /\ [][NextCodec]_vars

\* ------------------------------------- constructors and conversions
\* p = n.ToPtr()
DoToPtr ==
    /\ last.op = "idle"
    /\ LET r == ToPtr(n) IN
       last' = Call("ToPtr", UntypedNil, n, [at |-> r.at], Dyn("ptr", r.ptr),
                    NoErr, FALSE)
    /\ UNCHANGED <<T, n, o>>

\* out = n.ToOption()
DoToOption ==
    /\ last.op = "idle"
    /\ last' = Call("ToOption", UntypedNil, n, NoHook, ToOption(T, n), NoErr, FALSE)
    /\ UNCHANGED <<T, n, o>>

\* c := o: the two variables after a by-value copy of a container.
Assign(c) == [orig |-> c, copy |-> c]

\* p = n.ToPtr(); *p = w
DoStoreViaToPtr ==
    /\ last.op = "ToPtr" /\ ~last.out.val.nil
    /\ \E w \in Values(T) :
        /\ n' = StoreAt(n, last.hook.at, w)
        /\ last' = Call("store via ToPtr", Dyn(T, w), n, last.hook, last.out,
                        NoErr, FALSE)
    /\ UNCHANGED <<T, o>>

\* n = NullableFromPtr(p); *p = w
DoStoreViaNullableFromPtrArg ==
    /\ last.op = "NullableFromPtr" /\ ~last.in.val.nil
    /\ \E w \in Values(T) :
        /\ n' = StoreAt(n, CallerVariable, w)
        /\ last' = Call("store via NullableFromPtr arg", Dyn(T, w), n,
                        [at |-> CallerVariable], last.in, NoErr, FALSE)
    /\ UNCHANGED <<T, o>>

\* p = o.Ptr(); *p = w
DoStoreViaPtr ==
    /\ last.op = "Ptr" /\ ~last.out.val.nil
    /\ \E w \in Values(T) :
        /\ o' = StoreAt(o, last.hook.at, w)
        /\ last' = Call("store via Ptr", Dyn(T, w), o, last.hook, last.out,
                        NoErr, FALSE)
    /\ UNCHANGED <<T, n>>

\* o = FromPtr(p); *p = w
DoStoreViaFromPtrArg ==
    /\ last.op = "FromPtr" /\ ~last.in.val.nil
    /\ \E w \in Values(T) :
        /\ o' = StoreAt(o, CallerVariable, w)
        /\ last' = Call("store via FromPtr arg", Dyn(T, w), o,
                        [at |-> CallerVariable], last.in, NoErr, FALSE)
    /\ UNCHANGED <<T, n>>

\* c := o; c.Set(v)
DoCopySet ==
    /\ last.op = "idle"
    /\ \E v \in Values(T) :
        LET after == [Assign(o) EXCEPT !.copy = Set(@, v)] IN
        /\ o' = after.orig
        /\ last' = Call("copy.Set", Dyn(T, v), o, NoHook, after.copy, NoErr, FALSE)
    /\ UNCHANGED <<T, n>>

\* c := o; c.Unset()
DoCopyUnset ==
    /\ last.op = "idle"
    /\ LET after == [Assign(o) EXCEPT !.copy = Unset(T, @)] IN
       /\ o' = after.orig
       /\ last' = Call("copy.Unset", UntypedNil, o, NoHook, after.copy, NoErr, FALSE)
    /\ UNCHANGED <<T, n>>

\* p = o.Ptr()
DoPtr ==
    /\ last.op = "idle"
    /\ LET r == Ptr(T, o) IN
       last' = Call("Ptr", UntypedNil, o, [at |-> r.at], Dyn("ptr", r.ptr),
                    NoErr, FALSE)
    /\ UNCHANGED <<T, n, o>>

\* The constructors, accessors and conversions of both containers.  As in
\* NextCodec, one container is exercised while the other stays as declared.
NextContainer ==
    \/ OptionDeclared /\ DoNull
    \/ OptionDeclared /\ DoNullableOf
    \/ OptionDeclared /\ DoNullableFromPtr
    \/ OptionDeclared /\ DoZeroValue
    \/ NullableDeclared /\ DoNone
    \/ NullableDeclared /\ DoSome
    \/ NullableDeclared /\ DoFromPtr
    \/ NullableDeclared /\ DoOptionZeroValue
    \/ NullableDeclared /\ DoSet
    \/ NullableDeclared /\ DoUnset
    \/ OptionDeclared /\ DoScan
    \/ OptionDeclared /\ DoToPtr
    \/ OptionDeclared /\ DoToOption
    \/ NullableDeclared /\ DoPtr
    \/ OptionDeclared /\ DoStoreViaToPtr
    \/ OptionDeclared /\ DoStoreViaNullableFromPtrArg
    \/ NullableDeclared /\ DoStoreViaPtr
    \/ NullableDeclared /\ DoStoreViaFromPtrArg
    \/ NullableDeclared /\ DoCopySet
    \/ NullableDeclared /\ DoCopyUnset
    \/ Return

ContainerSpec == Init /\ [][NextContainer]_vars

\* ------------------------------------------------------ helper functions
\* The longest argument list handed to a variadic helper.
MaxArgs == 4

\* The element types that satisfy the constraint `comparable`.
ComparableElementTypes == {t \in Types : Kind(t) # "slice"}

\* A few values of an element type: its zero value and two others.
Samples(t) ==
    LET k == Kind(t) IN
    CASE k = "string" -> {<<>>, <<"a">>, <<"0">>}
      [] k = "slice" -> {NilBytes, Bytes(<<>>), Bytes(<<"a">>)}
      [] k = "bool" -> BOOLEAN
      [] k \in SignedKinds \cup {"float64"} -> {-1, 0, 1}
      [] k \in UnsignedKinds -> {0, 1, 2}
      [] k = "float32" -> {-2, 0, 2}
      [] OTHER -> 0..1

ArgLists(t) == UNION {[1..m -> Samples(t)] : m \in 0..MaxArgs}

InitHelpers ==
    /\ T \in ComparableElementTypes
    /\ n = Nullable(Zero(T), FALSE)
    /\ o = Option(Zero(T), FALSE)
    /\ last = Idle

\* v, ok = FirstNonZero(vals...)
DoFirstNonZero ==
    /\ last.op = "idle"
    /\ \E vals \in ArgLists(T) :
        last' = Call("FirstNonZero", vals, UntypedNil, NoHook,
                     FirstNonZero(T, vals), NoErr, FALSE)
    /\ UNCHANGED <<T, n, o>>

NextHelpers ==
    \/ DoFirstNonZero
    \/ Return

HelpersSpec == InitHelpers /\ [][NextHelpers]_vars

\* ------------------------------------------- concurrent Set and Unset
\* One goroutine runs o.Set(v) and another o.Unset() on the same Option,
\* statement by statement.  last.in is v, last.pre the Option at the start,
\* and last.hook holds where each call stands (test, flag, value, done),
\* whether the caller wraps each call in a lock, and who holds the lock.

\* if !o.has
SetTest(c) == ~c.has

\* o.has = true
SetFlag(c) == [c EXCEPT !.has = TRUE]

\* o.value = v
SetValue(c, v) == [c EXCEPT !.value = v]

\* if o.has
UnsetTest(c) == c.has

\* o.has = false
UnsetFlag(c) == [c EXCEPT !.has = FALSE]

\* Faulty variant: the value is left in place.
UnsetValue_Skip(t, c) == c

\* var zero T; o.value = zero
UnsetValue(t, c) == [c EXCEPT !.value = Zero(t)]

Race(locked, lock, set, unset) ==
    [locked |-> locked, lock |-> lock, set |-> set, unset |-> unset]

\* The Option before the two calls, the argument of Set, and the caller's
\* choice to lock around each call or not.
InitRace ==
    /\ T \in Types
    /\ n = Nullable(Zero(T), FALSE)
    /\ o \in {None(T)} \cup {Some(x) : x \in Samples(T)}
    /\ \E v \in Samples(T), locked \in BOOLEAN :
        last = Call("race", Dyn(T, v), o, Race(locked, "free", "test", "test"),
                    UntypedNil, NoErr, FALSE)

\* A call may take a step when the caller does not lock, or when the lock is
\* free or its own.
MayStep(who) == ~last.hook.locked \/ last.hook.lock \in {"free", who}

\* The lock after a step of `who` that leaves it at pc.
LockAfter(who, pc) ==
    IF ~last.hook.locked \/ pc = "done" THEN "free" ELSE who

SetStep(pc, c) ==
    /\ o' = c
    /\ last' = [last EXCEPT !.hook.set = pc, !.hook.lock = LockAfter("set", pc)]
    /\ UNCHANGED <<T, n>>

UnsetStep(pc, c) ==
    /\ o' = c
    /\ last' = [last EXCEPT !.hook.unset = pc,
                            !.hook.lock = LockAfter("unset", pc)]
    /\ UNCHANGED <<T, n>>

SetReadsFlag ==
    /\ last.op = "race" /\ last.hook.set = "test" /\ MayStep("set")
    /\ SetStep(IF SetTest(o) THEN "flag" ELSE "value", o)

SetWritesFlag ==
    /\ last.op = "race" /\ last.hook.set = "flag" /\ MayStep("set")
    /\ SetStep("value", SetFlag(o))

SetWritesValue ==
    /\ last.op = "race" /\ last.hook.set = "value" /\ MayStep("set")
    /\ SetStep("done", SetValue(o, last.in.val))

UnsetReadsFlag ==
    /\ last.op = "race" /\ last.hook.unset = "test" /\ MayStep("unset")
    /\ UnsetStep(IF UnsetTest(o) THEN "flag" ELSE "value", o)

UnsetWritesFlag ==
    /\ last.op = "race" /\ last.hook.unset = "flag" /\ MayStep("unset")
    /\ UnsetStep("value", UnsetFlag(o))

UnsetWritesValue ==
    /\ last.op = "race" /\ last.hook.unset = "value" /\ MayStep("unset")
    /\ UnsetStep("done", UnsetValue(T, o))

NextRace ==
    \/ SetReadsFlag
    \/ SetWritesFlag
    \/ SetWritesValue
    \/ UnsetReadsFlag
    \/ UnsetWritesFlag
    \/ UnsetWritesValue

RaceSpec == InitRace /\ [][NextRace]_vars

\* ------------------------------------------------ equality of containers
\* var n Nullable[T], for every element type Equals is instantiated with.
InitEquals ==
    /\ T \in EqualsTypes
    /\ n = Nullable(Zero(T), FALSE)
    /\ o = Option(Zero(T), FALSE)
    /\ last = Idle

\* The containers n can be compared with.
Nullables(t) == {Null(t)} \cup {NullableOf(v) : v \in Values(t)}

\* n.Equals(other)
DoEquals ==
    /\ last.op = "idle"
    /\ \E other \in Nullables(T) :
        LET r == Equals(T, n, other) IN
        last' = Call("Equals", other, n, NoHook, r.out, NoErr, r.panicked)
    /\ UNCHANGED <<T, n, o>>

NextEquals ==
    \/ DoNull
    \/ DoNullableOf
    \/ DoEquals
    \/ Return

EqualsSpec == InitEquals /\ [][NextEquals]_vars

\* ------------------------------------------------------------ properties
IntegerKinds == SignedKinds \cup UnsignedKinds

\* The values an integer element type can hold.
IntRange(t) ==
    IF Kind(t) \in SignedKinds THEN MinInt(Kind(t))..MaxInt(Kind(t))
    ELSE 0..MaxUint(Kind(t))

\* The integer a source denotes: a 64-bit integer, or a byte sequence that
\* holds a base-10 integer of 64 bits.
DenotesInt(src) ==
    \/ src.type = "int64"
    \/ src.type = "bytes" /\ ~src.val.nil /\ ParseInt(src.val.data).err = NoErr

DenotedInt(src) ==
    IF src.type = "int64" THEN src.val ELSE ParseInt(src.val.data).val

OverflowErrs == {"overflow_signed", "negative_unsigned", "overflow_unsigned"}

\* C1: in every state a Nullable reaches, valid = false implies that the
\* stored value is the zero value of T.
C1_InvalidNullableIsZero == ~n.valid => n.value = Zero(T)

\* C2: in every state an Option reaches through None, Some, FromPtr, the zero
\* value, Set, Unset and UnmarshalJSON, has = false implies that the stored
\* value is the zero value of T.
C2_AbsentOptionIsZero == ~o.has => o.value = Zero(T)

\* An Unset of a present Option holding a non-zero value has just run.
C2_Witness ==
    /\ last.op = "Unset"
    /\ last.pre.has /\ last.pre.value # Zero(T)
    /\ ~o.has

\* C3: no operation other than Option.Unwrap panics; in particular no Scan
\* of a nil, integer, float, bool, string or byte-sequence source does.
C3_OnlyUnwrapPanics == last.op # "Unwrap" => ~last.panicked

\* C4: Scan of a 64-bit integer, or of a byte sequence holding a base-10
\* integer, whose value lies in the range of the integer element type (no
\* decode hook) returns no error and leaves the container valid with exactly
\* that integer.
C4_ScanInRangeInteger ==
    (/\ last.op = "Scan"
     /\ Kind(T) \in IntegerKinds /\ ~HasScanner(T)
     /\ DenotesInt(last.in)
     /\ DenotedInt(last.in) \in IntRange(T))
    => (/\ last.err = NoErr /\ ~last.panicked
        /\ n = NullableOf(DenotedInt(last.in)))

\* C5: when the 64-bit integer Scan obtains does not fit the integer element
\* type, Scan returns an overflow error and stores nothing in the container.
C5_ScanOverflowRejected ==
    (/\ last.op = "Scan"
     /\ Kind(T) \in IntegerKinds /\ ~HasScanner(T)
     /\ DenotesInt(last.in)
     /\ DenotedInt(last.in) \notin IntRange(T))
    => (/\ last.err \in OverflowErrs /\ ~last.panicked
        /\ n = last.pre)

\* A valid container has just refused a parsed integer above its unsigned range.
C5_Witness ==
    /\ last.op = "Scan"
    /\ T = "uint16"
    /\ last.in.type = "bytes" /\ DenotesInt(last.in)
    /\ DenotedInt(last.in) > MaxUint("uint16")
    /\ last.pre.valid /\ last.pre.value # 0
    /\ last.err = "overflow_unsigned"

\* C6: for every unsigned element type U and every u of U up to the signed
\* 64-bit maximum, Scan of the result of NullableOf(u).Value() returns no
\* error and leaves the container valid with value u.
C6_UnsignedRoundTrip ==
    \A u \in Values(T) :
        (/\ T \in UnsignedKinds
         /\ u <= MaxInt64
         /\ last.op = "Scan"
         /\ DynEq(last.in, Value(T, NullableOf(u), NoValuer).out))
        => (/\ last.err = NoErr /\ ~last.panicked
            /\ n = NullableOf(u))

\* C7: Value() on a valid Nullable of unsigned kind (no encode hook) returns
\* the int64 equal to u when u is at most the signed 64-bit maximum, and an
\* overflow error with no value otherwise.
C7_UnsignedValue ==
    (/\ last.op = "Value"
     /\ n.valid /\ Kind(T) \in UnsignedKinds /\ ~HasValuer(T))
    => IF n.value <= MaxInt64
       THEN last.err = NoErr /\ DynEq(last.out, Dyn("int64", n.value))
       ELSE last.err = "unsigned_overflow" /\ last.out.type = "nil"

\* Value() has just refused a uint64 above the signed 64-bit maximum.
C7_Witness ==
    /\ last.op = "Value"
    /\ T = "uint64" /\ n.valid /\ n.value > MaxInt64
    /\ last.err = "unsigned_overflow"

\* C8 as stated: native types pass through, signed integers narrower than 64
\* bits widen to int64, float32 widens to float64, and every other element
\* type is refused as unsupported.
C8_DispatchAsStated ==
    (last.op = "Value" /\ n.valid /\ ~HasValuer(T))
    => CASE T \in NativeTypes ->
              last.err = NoErr /\ DynEq(last.out, Dyn(T, n.value))
         [] Kind(T) \in {"int8", "int16", "int32"} ->
              last.err = NoErr /\ DynEq(last.out, Dyn("int64", n.value))
         [] Kind(T) = "float32" ->
              last.err = NoErr /\ DynEq(last.out, Dyn("float64", n.value))
         [] OTHER ->
              last.err = "unsupported_type" /\ last.out.type = "nil"

\* C8 amended: as stated, except that the platform-sized int widens like the
\* narrower signed integers and an unsigned integer is an int64 or an overflow
\* error; whenever the error is nil the result has a native type.
C8_Dispatch ==
    (last.op = "Value" /\ n.valid /\ ~HasValuer(T))
    => /\ CASE T \in NativeTypes ->
                last.err = NoErr /\ DynEq(last.out, Dyn(T, n.value))
           [] Kind(T) \in {"int", "int8", "int16", "int32"} ->
                last.err = NoErr /\ DynEq(last.out, Dyn("int64", n.value))
           [] Kind(T) \in UnsignedKinds ->
                \/ last.err = NoErr /\ DynEq(last.out, Dyn("int64", n.value))
                \/ last.err = "unsigned_overflow" /\ last.out.type = "nil"
           [] Kind(T) = "float32" ->
                last.err = NoErr /\ DynEq(last.out, Dyn("float64", n.value))
           [] OTHER ->
                last.err = "unsupported_type" /\ last.out.type = "nil"
       /\ (last.err = NoErr => last.out.type \in NativeTypes)

\* Value() has just refused a named type whose kind is the 64-bit integer.
C8_Witness ==
    /\ last.op = "Value"
    /\ T = "MyInt64" /\ n.valid /\ n.value # 0
    /\ last.err = "unsupported_type"

\* C9: Value() on an invalid Nullable returns nil and no error for every
\* element type, whatever its encode hook or the type dispatch would give.
C9_InvalidValueIsNil ==
    (last.op = "Value" /\ ~n.valid)
    => (last.out.type = "nil" /\ last.err = NoErr)

\* Value() has just run on an invalid container whose hook would have failed.
C9_Witness ==
    /\ last.op = "Value"
    /\ T = "Money" /\ ~n.valid
    /\ last.hook.err = "hook"

\* C10: Value() on a valid Nullable whose element has its own encode hook
\* returns exactly the hook's (value, error) pair.
C10_HookResultReturned ==
    (last.op = "Value" /\ n.valid /\ HasValuer(T))
    => (DynEq(last.out, last.hook.out) /\ last.err = last.hook.err)

\* The hook answered for a value the unsigned overflow check would refuse.
C10_Witness ==
    /\ last.op = "Value"
    /\ T = "Money" /\ n.valid /\ n.value > MaxInt64
    /\ last.err = NoErr /\ last.out.type = "string"

\* A source Scan treats as absent: the untyped nil, or a typed nil pointer,
\* map, channel, slice or function.
AbsentSource(src) ==
    \/ src.type = "nil"
    \/ src.type \in {"ptr", "map", "chan", "bytes", "func"} /\ src.val.nil

\* C11: Scan of an absent source returns no error and leaves the container
\* invalid with the zero value, whatever it held and whatever T is.
C11_ScanAbsentSource ==
    (last.op = "Scan" /\ AbsentSource(last.in))
    => (/\ last.err = NoErr /\ ~last.panicked
        /\ n = Nullable(Zero(T), FALSE))

\* A valid, non-zero container whose element has a decode hook was just
\* reset by a nil byte sequence, although the hook would have failed.
C11_Witness ==
    /\ last.op = "Scan"
    /\ T = "Code"
    /\ last.in.type = "bytes" /\ last.in.val.nil
    /\ last.pre.valid /\ last.pre.value # 0
    /\ ~n.valid

\* C12: for a non-absent source and an element type with its own decode
\* hook, the hook decides: on success Scan returns no error and the container
\* is valid; on failure Scan returns the hook's error and leaves the valid
\* flag as it was.  The exact-type store does not come first.
C12_ScanHookDecides ==
    (last.op = "Scan" /\ ~AbsentSource(last.in) /\ HasScanner(T))
    => /\ ~last.panicked
       /\ last.err = last.hook.err
       /\ n.value = last.hook.write
       /\ n.valid = (IF last.hook.err = NoErr THEN TRUE ELSE last.pre.valid)

\* The hook has just refused a source whose type is exactly T, on an
\* invalid container.
C12_Witness ==
    /\ last.op = "Scan"
    /\ T = "Code" /\ last.in.type = "Code"
    /\ last.hook.err = "hook" /\ last.err = "hook"
    /\ ~last.pre.valid /\ ~n.valid

UnsupportedSourceErrs ==
    {"unsupported_source_int", "unsupported_source_string",
     "unsupported_source_float"}

C14_FailedScanLeavesInvalid ==
    (last.op = "Scan" /\ last.err # NoErr) => ~n.valid

\* What MarshalJSON must have returned for a container with this presence
\* flag and value: null when absent, the encoding of the value when present;
\* for an integer the encoding reads back as the same number.
MarshalAsClaimed(present, v) ==
    /\ last.err = NoErr /\ ~last.panicked
    /\ last.out.val.data = (IF present THEN JSONMarshal(T, v) ELSE JSONNull)
    /\ (present /\ Kind(T) \in IntegerKinds) =>
          LET d == SignedDecimal(last.out.val.data) IN
          d.ok /\ (IF d.neg THEN -d.mag ELSE d.mag) = v

UnmarshalAsClaimed(present, v) ==
    LET data == last.in.val.data
        d == JSONUnmarshal(T, data)
    IN IF data = JSONNull
       THEN last.err = NoErr /\ ~present /\ v = Zero(T)
       ELSE d.err = NoErr => (last.err = NoErr /\ present /\ v = d.val)

\* C16: UnmarshalJSON of null leaves the container absent with the zero value
\* and returns no error; UnmarshalJSON of another token that T's decoder
\* accepts leaves it present with the decoded value; both from any prior
\* state, for Option and Nullable.
C16_UnmarshalJSON ==
    /\ last.op = "UnmarshalJSON" => UnmarshalAsClaimed(n.valid, n.value)
    /\ last.op = "Option.UnmarshalJSON" => UnmarshalAsClaimed(o.has, o.value)

\* A valid, non-zero Nullable has just been reset by null.
C16_Witness ==
    /\ last.op = "UnmarshalJSON"
    /\ last.in.val.data = JSONNull
    /\ last.pre.valid /\ last.pre.value # Zero(T)
    /\ ~n.valid

\* The element types whose JSON encoding is lossless: integers, strings, bools.
LosslessJSON(t) == Kind(t) \in IntegerKinds \cup {"string", "bool"}

\* C17: for an element type with a lossless JSON encoding, UnmarshalJSON of
\* what MarshalJSON returned for a container yields an absent container when
\* that one was absent and a present one with the same value when it was
\* present, whatever the target held before; for Option and Nullable.
C17_JSONRoundTrip ==
    LosslessJSON(T) =>
      \A v \in Values(T), present \in BOOLEAN :
        /\ (/\ last.op = "UnmarshalJSON"
            /\ last.in.val.data = NullableMarshalJSON(T, Nullable(v, present)).out)
           => /\ last.err = NoErr
              /\ n.valid = present
              /\ present => n.value = v
        /\ (/\ last.op = "Option.UnmarshalJSON"
            /\ last.in.val.data = OptionMarshalJSON(T, Option(v, present)).out)
           => /\ last.err = NoErr
              /\ o.has = present
              /\ present => o.value = v

\* The encoding of a negative integer was just decoded into a Nullable that
\* held another value.
C17_Witness ==
    /\ last.op = "UnmarshalJSON"
    /\ T = "int8"
    /\ last.pre = NullableOf(1)
    /\ last.in.val.data = NullableMarshalJSON(T, NullableOf(-1)).out
    /\ n = NullableOf(-1)

\* C18: when T's decoder rejects a non-null token, UnmarshalJSON returns the
\* decoder's error and leaves value and presence flag as they were; for
\* Option and Nullable.
C18_UnmarshalErrorKeepsState ==
    LET data == last.in.val.data IN
    /\ (/\ last.op = "UnmarshalJSON"
        /\ data # JSONNull /\ JSONUnmarshal(T, data).err # NoErr)
       => (last.err = JSONUnmarshal(T, data).err /\ n = last.pre)
    /\ (/\ last.op = "Option.UnmarshalJSON"
        /\ data # JSONNull /\ JSONUnmarshal(T, data).err # NoErr)
       => (last.err = JSONUnmarshal(T, data).err /\ o = last.pre)

\* A valid, non-zero Nullable has just been given a token of the wrong shape.
C18_Witness ==
    /\ last.op = "UnmarshalJSON"
    /\ last.err = "json_type"
    /\ last.pre.valid /\ last.pre.value # Zero(T)
    /\ n = last.pre

\* The element types whose values Go compares with == without ever faulting:
\* every comparable type that is not an interface type.
ComparableTypes == {t \in EqualsTypes : Comparable(t) /\ Kind(t) # "interface"}

\* C19: for an equality-comparable element type, Equals returns true exactly
\* when both containers are invalid, or both are valid and their values are
\* equal under the element type's equality; a valid and an invalid container
\* are unequal in both argument orders.
C19_EqualsComparable ==
    last.op = "Equals" /\ T \in ComparableTypes =>
        /\ ~last.panicked
        /\ last.out = (/\ last.pre.valid = last.in.valid
                       /\ last.pre.valid => last.pre.value = last.in.value)

\* C20: Equals on two valid containers whose element value is not
\* equality-comparable returns false, also when a container is compared with
\* itself, and Equals never faults, whatever the element type and the pair
\* of containers, an interface-typed element holding nil included.
C20_EqualsNeverFaults ==
    last.op = "Equals" =>
        /\ ~last.panicked
        /\ (/\ last.pre.valid /\ last.in.valid
            /\ ~Comparable(TypeOf(T, last.pre.value)))
           => last.out = FALSE

\* C21: Unwrap on an absent Option panics with ErrMissingValue; Unwrap on a
\* present Option returns the stored value; in both cases the Option keeps
\* its value and its presence flag.
C21_Unwrap ==
    last.op = "Unwrap" =>
        /\ o = last.pre
        /\ ~last.pre.has => last.panicked /\ last.err = ErrMissingValue
        /\ last.pre.has => /\ ~last.panicked
                           /\ last.err = NoErr
                           /\ last.out = Dyn(T, last.pre.value)

\* Unwrap has aborted on an absent Option.
C21_Witness == last.op = "Unwrap" /\ ~last.pre.has /\ last.panicked

\* C22: None, Null and the zero-value Option are absent and hold the zero
\* value of T; Some(v) and NullableOf(v) are present and Value()/Extract()
\* return (v, true) for every v, the zero value of T included; in every
\* state IsSome() = not IsNone() and IsValid() = not IsNull().
C22_Constructors ==
    /\ last.op \in {"None", "Option.zero"} =>
            ~IsSome(o) /\ OptionValue(o) = Pair(Zero(T), FALSE)
    /\ last.op = "Null" => IsNull(n) /\ Extract(n) = Pair(Zero(T), FALSE)
    /\ last.op = "Some" => IsSome(o) /\ OptionValue(o) = Pair(last.in.val, TRUE)
    /\ last.op = "NullableOf" =>
            IsValid(n) /\ Extract(n) = Pair(last.in.val, TRUE)
    /\ IsSome(o) = ~IsNone(o)
    /\ IsValid(n) = ~IsNull(n)

\* NullableOf has just been given the zero value of T.
C22_Witness ==
    /\ last.op = "NullableOf"
    /\ last.in.val = Zero(T)
    /\ Extract(n) = Pair(Zero(T), TRUE)

\* C23: from any Option state Set(v) leaves the Option present with value v,
\* so a second Set(v) changes nothing and Set(v);Set(w) has the effect of
\* Set(w); from any Option state Unset() leaves the Option absent with the
\* zero value of T, and Unset on an absent Option changes nothing.
C23_SetUnset ==
    /\ last.op = "Set" =>
            /\ o = Some(last.in.val)
            /\ Set(o, last.in.val) = o
            /\ \A w \in Values(T) : Set(o, w) = Set(last.pre, w)
    /\ last.op = "Unset" =>
            /\ o = None(T)
            /\ Unset(T, o) = o
            /\ ~last.pre.has => o = last.pre

\* Set has just made an absent Option present with a non-zero value.
C23_Witness ==
    /\ last.op = "Set"
    /\ ~last.pre.has
    /\ last.in.val # Zero(T)
    /\ o.has

\* C24: AndThen invokes fn exactly once, with the receiver, when the Option
\* is present, and returns fn's result; when the Option is absent it does
\* not invoke fn and returns None.  AndThenOr always invokes fn exactly once,
\* with the receiver when present and with Some(default) when absent.
\* Neither changes the receiver.
C24_AndThen ==
    /\ last.op = "AndThen" =>
            /\ o = last.pre
            /\ last.pre.has => /\ last.hook.calls = <<last.pre>>
                               /\ last.out = Apply(last.hook.fn, T, last.pre)
            /\ ~last.pre.has => /\ last.hook.calls = <<>>
                                /\ last.out = None(T)
    /\ last.op = "AndThenOr" =>
            /\ o = last.pre
            /\ last.hook.calls =
                    <<IF last.pre.has THEN last.pre ELSE Some(last.in.val)>>
            /\ last.out = Apply(last.hook.fn, T, last.hook.calls[1])

\* AndThen has returned None for an absent Option without invoking a
\* callback that would have returned something else.
C24_Witness ==
    /\ last.op = "AndThen"
    /\ ~last.pre.has
    /\ last.hook.fn = "toSomeZero"
    /\ last.hook.calls = <<>>

\* Two Nullables with the same presence and, when present, the same value.
SameNullable(a, b) == a.valid = b.valid /\ (a.valid => a.value = b.value)

\* C25: FromPtr(p) and NullableFromPtr(p) are absent when p is nil and
\* present with *p otherwise; Ptr() and ToPtr() return nil exactly when the
\* container is absent and otherwise a pointer to a value equal to the
\* contained one, so that FromPtr(o.Ptr()) equals o and
\* NullableFromPtr(n.ToPtr()) equals n; ToOption maps an invalid Nullable to
\* None and a valid Nullable holding v to Some(v).
C25_Conversions ==
    /\ last.op = "FromPtr" =>
            /\ o.has = ~last.in.val.nil
            /\ o.value = IF last.in.val.nil THEN Zero(T) ELSE last.in.val.elem
    /\ last.op = "NullableFromPtr" =>
            /\ n.valid = ~last.in.val.nil
            /\ n.value = IF last.in.val.nil THEN Zero(T) ELSE last.in.val.elem
    /\ last.op = "Ptr" =>
            /\ last.out.val.nil = ~last.pre.has
            /\ last.pre.has => last.out.val.elem = last.pre.value
            /\ FromPtr(T, last.out.val) = last.pre
    /\ last.op = "ToPtr" =>
            /\ last.out.val.nil = ~last.pre.valid
            /\ last.pre.valid => last.out.val.elem = last.pre.value
            /\ SameNullable(NullableFromPtr(T, last.out.val), last.pre)
    /\ last.op = "ToOption" =>
            /\ ~last.pre.valid => last.out = None(T)
            /\ last.pre.valid => last.out = Some(last.pre.value)

\* Ptr has returned a pointer to the zero value a present Option holds.
C25_Witness ==
    /\ last.op = "Ptr"
    /\ last.pre = Some(Zero(T))
    /\ ~last.out.val.nil
    /\ last.out.val.elem = Zero(T)

\* The positions of the arguments that are not the zero value of T.
NonZeroAt(vals) == {i \in 1..Len(vals) : vals[i] # Zero(T)}

\* C26: FirstNonZero(vals...) returns (v, true) for the first v, in argument
\* order, that is not the zero value of T, and (zero value of T, false) when
\* every argument is zero or there is none.
C26_FirstNonZero ==
    last.op = "FirstNonZero" =>
        LET vals == last.in
            nz == NonZeroAt(vals) IN
        last.out =
            IF nz = {} THEN Pair(Zero(T), FALSE)
            ELSE Pair(vals[CHOOSE i \in nz : \A j \in nz : i <= j], TRUE)

C28_FailedScanWritesNothing ==
    last.op = "Scan" /\ ~HasScanner(T) /\ last.err # NoErr => n = last.pre

\* A float32 range error on a container that was valid with a non-zero value.
C28_Witness ==
    /\ last.op = "Scan"
    /\ last.err = "overflow_float32"
    /\ last.pre.valid /\ last.pre.value # Zero(T)
    /\ n = last.pre

RaceDone == last.op = "race" /\ last.hook.set = "done" /\ last.hook.unset = "done"

\* C30: Set and Unset write the flag and the value in separate,
\* unsynchronized steps.  When the caller locks around each call, a Set(v)
\* and an Unset() on the same Option end either present with v or absent
\* with the zero value, in whichever order they ran; without the lock their
\* steps can interleave to end absent with the non-zero value v, a state
\* RaceSpec reaches.
C30_LockedSetUnset ==
    RaceDone /\ last.hook.locked =>
        /\ o \in {Some(last.in.val), None(T)}
        /\ o \in {Unset(T, Set(last.pre, last.in.val)),
                   Set(Unset(T, last.pre), last.in.val)}

\* Without a lock, a Set(v) with non-zero v and an Unset() on an Option that
\* started present have both returned and left has = false with value = v.
C30_Witness ==
    /\ RaceDone /\ ~last.hook.locked
    /\ last.pre.has
    /\ last.in.val # Zero(T)
    /\ ~o.has /\ o.value = last.in.val

====
